---- MODULE Spec2Model ----
(***************************************************************************)
(* Model of udm_import.py: the run controller (UdmImport.do_import), the   *)
(* precondition checker (check_preconditions) and the row executor         *)
(* (exec_admin, create, modify, remove, get_obj, set_attrs).  The UDM API  *)
(* and the csv/magic libraries are external: the outcome of each call is a *)
(* nondeterministic choice among the outcomes the code distinguishes.      *)
(***************************************************************************)
EXTENDS Integers, Sequences, FiniteSets, TLC

\* ---- bounds of the explored inputs ----
MaxRows == 3
Keys == {1, 2}
Columns == {"dn", "username", "description", "position", "bogus"}
ObjDns == {"cn=a", "cn=b"}

\* ---- the program's constants and the target type's schema ----
None == "None"
Actions == {"create", "modify", "remove"}
obj_non_props == {"dn", "options", "policies", "position", "superordinate"}
IdProp == "username"
TypeProps == {"username", "description"}

VARIABLES
    action,     \* self.action
    header,     \* the stripped column names of the file (rows[0].keys())
    keys,       \* one key per data row of the file; cell (c, k) holds <<c, k>>
    sniffable,  \* whether csv.Sniffer finds a dialect for the first line
    pc,         \* position in do_import
    rows,       \* the local `rows` of do_import
    found,      \* the row count logged by 'Found N rows'
    schema,     \* outcome of self.mod.new() in check_preconditions
    idx,        \* position of the progress-bar loop (1-based)
    errors,     \* the local `errors` of do_import
    calls,      \* the UDM API calls made so far, in order
    results,    \* one entry per row handed to exec_admin, in order
    summary,    \* the tally lines logged: empty until the final one is
    fatal,      \* the reason of an early abort, "none" otherwise
    exit        \* process exit status, -1 while running

vars == <<action, header, keys, sniffable, pc, rows, found, schema, idx,
          errors, calls, results, summary, fatal, exit>>

inputs == <<action, header, keys, sniffable>>

\* ---- helpers ----
SeqsUpTo(S, n) == UNION {[1..m -> S] : m \in 0..n}

\* CsvReader.read: one dict per data row, keyed by the stripped header names
ReadRow(hdr, k) == [c \in hdr |-> <<c, k>>]

ReadRows(hdr, ks) == [i \in 1..Len(ks) |-> ReadRow(hdr, ks[i])]

\* ---- Precondition Checker ----

\* variant: the 'dn' test attached to the wrong operation
DnNotAllowedModify(act, hdr) == act = "modify" /\ "dn" \in hdr

\* check_preconditions: 'dn' column with create
DnNotAllowed(act, hdr) == act = "create" /\ "dn" \in hdr

\* variant: only the 'dn' column is looked for
MissingIdentifierDnOnly(act, hdr) ==
    /\ act \in {"modify", "remove"}
    /\ "dn" \notin hdr

\* check_preconditions: neither the identifying property nor 'dn' with modify/remove
MissingIdentifier(act, hdr) ==
    /\ act \in {"modify", "remove"}
    /\ IdProp \notin hdr
    /\ "dn" \notin hdr

\* variant: the structural columns are left out of known_props
known_props_no_structural == TypeProps

\* known_props when self.mod.new() succeeds
known_props == obj_non_props \cup TypeProps

\* unknown_columns = [key for key in rows[0].keys() if key not in known_props]
unknown_columns(hdr) == {key \in hdr : key \notin known_props}

\* the message of the Log.fatal that check_preconditions ends in, "none" if it returns
check_preconditions(act, hdr, intro) ==
    IF DnNotAllowed(act, hdr) THEN "dn_not_allowed"
    ELSE IF MissingIdentifier(act, hdr) THEN "id_required"
    ELSE IF act \in {"create", "modify"} /\ intro = "ok" /\ unknown_columns(hdr) # {}
         THEN "unknown_props"
    ELSE "none"

\* ---- Row Executor ----

Call(op, i, arg) == [op |-> op, row |-> i, arg |-> arg]

Outcome(cs, exc, dn) == [calls |-> cs, exc |-> exc, dn |-> dn]

\* set_attrs: setattr(obj.props, k, v) raises UnknownProperty for a column that
\* is neither structural nor a property of the type
set_attrs_raises(row) == \E k \in DOMAIN row : k \notin obj_non_props /\ k \notin TypeProps

\* variant: the identifying property is preferred over 'dn'
get_obj_id_first(row, i) ==
    IF IdProp \in DOMAIN row
    THEN Call("get_by_id", i, row[IdProp])
    ELSE Call("get", i, row["dn"])

\* get_obj: the lookup call made for a row
get_obj(row, i) ==
    IF "dn" \in DOMAIN row
    THEN Call("get", i, row["dn"])
    ELSE Call("get_by_id", i, row[IdProp])

\* create: new(), set_attrs, save(), return obj.dn
create(row, i) ==
    {Outcome(<<Call("new", i, None)>>, "NoSuperordinate", None)}
    \cup (IF set_attrs_raises(row)
          THEN {Outcome(<<Call("new", i, None)>>, "UnknownProperty", None)}
          ELSE {Outcome(<<Call("new", i, None), Call("save", i, None)>>, "CreateError", None)}
               \cup {Outcome(<<Call("new", i, None), Call("save", i, None)>>, "none", d) : d \in ObjDns})

\* modify: get_obj, set_attrs, save(), return obj.dn
modify(row, i) ==
    {Outcome(<<get_obj(row, i)>>, "NoObject", None)}
    \cup (IF set_attrs_raises(row)
          THEN {Outcome(<<get_obj(row, i)>>, "UnknownProperty", None)}
          ELSE {Outcome(<<get_obj(row, i), Call("save", i, None)>>, "ModifyError", None)}
               \cup {Outcome(<<get_obj(row, i), Call("save", i, None)>>, "none", d) : d \in ObjDns})

\* remove: the value returned, given obj.dn read before delete() and obj.dn after it
remove_return(before, after) == after

\* remove: get_obj, dn = obj.dn, delete(), return obj.dn;
\* delete() either leaves obj.dn alone or clears it
remove(row, i) ==
    {Outcome(<<get_obj(row, i)>>, "NoObject", None)}
    \cup {Outcome(<<get_obj(row, i), Call("delete", i, before)>>, "none", remove_return(before, after)) :
            <<before, after>> \in {p \in ObjDns \X (ObjDns \cup {None}) : p[2] \in {p[1], None}}}

\* exec_admin: dispatch on self.action
exec_admin(act, row, i) ==
    CASE act = "create" -> create(row, i)
      [] act = "modify" -> modify(row, i)
      [] act = "remove" -> remove(row, i)

\* ---- Run Controller ----

\* variant: NoObject missing from the first except clause
HandlerNoObjectUncaught(exc) ==
    CASE exc = "none" -> "good"
      [] exc \in {"CreateError", "ModifyError"} -> "count"
      [] exc = "UnknownProperty" -> "fatal"
      [] OTHER -> "uncaught"

\* variant: UnknownProperty caught by the first except clause
HandlerUnknownPropertyCounted(exc) ==
    CASE exc = "none" -> "good"
      [] exc \in {"CreateError", "ModifyError", "NoObject", "UnknownProperty"} -> "count"
      [] OTHER -> "uncaught"

\* the except clauses of the row loop
Handler(exc) ==
    CASE exc = "none" -> "good"
      [] exc \in {"CreateError", "ModifyError", "NoObject"} -> "count"
      [] exc = "UnknownProperty" -> "fatal"
      [] OTHER -> "uncaught"

\* variant: the rows are walked from the end of the file
RowAtReversed(rs, i) == rs[Len(rs) - i + 1]

\* the row the loop hands to exec_admin at position i
RowAt(rs, i) == rs[i]

\* variant: the errors are not subtracted from the processed count
SummaryLineAllRows(n, errs) == [ok |-> n, errors |-> errs]

\* the tally line: (objects processed, errors)
SummaryLine(n, errs) == [ok |-> n - errs, errors |-> errs]

\* variant: the error count is ignored
ExitCodeZero(errs) == 0

\* return 1 if errors else 0
ExitCode(errs) == IF errs # 0 THEN 1 ELSE 0

\* Log.fatal: log and sys.exit(1)
Fatal(msg) ==
    /\ pc' = "aborted"
    /\ fatal' = msg
    /\ exit' = 1

Init ==
    /\ action \in Actions
    /\ header \in (SUBSET Columns) \ {{}}
    /\ keys \in SeqsUpTo(Keys, MaxRows)
    /\ sniffable \in BOOLEAN
    /\ pc = "load"
    /\ rows = <<>>
    /\ found = -1
    /\ schema = "unchecked"
    /\ idx = 1
    /\ errors = 0
    /\ calls = <<>>
    /\ results = <<>>
    /\ summary = <<>>
    /\ fatal = "none"
    /\ exit = -1

\* do_import: rows = list(reader.read()); the dialect and no-data aborts
Load ==
    /\ pc = "load"
    /\ IF ~sniffable
       THEN Fatal("dialect") /\ UNCHANGED <<rows, found>>
       ELSE /\ rows' = ReadRows(header, keys)
            /\ IF rows' = <<>>
               THEN Fatal("no_data") /\ UNCHANGED found
               ELSE /\ found' = Len(rows')
                    /\ pc' = "validate"
                    /\ UNCHANGED <<fatal, exit>>
    /\ UNCHANGED <<inputs, schema, idx, errors, calls, results, summary>>

\* do_import: self.check_preconditions(rows)
Validate ==
    /\ pc = "validate"
    /\ \E intro \in {"ok", "NoSuperordinate"} :
        LET hdr == DOMAIN rows[1]
            reached == ~DnNotAllowed(action, hdr) /\ ~MissingIdentifier(action, hdr)
                       /\ action \in {"create", "modify"}
            msg == check_preconditions(action, hdr, intro)
        IN  /\ schema' = IF reached THEN intro ELSE schema
            /\ IF msg # "none"
               THEN Fatal(msg)
               ELSE pc' = "process" /\ UNCHANGED <<fatal, exit>>
    /\ UNCHANGED <<inputs, rows, found, idx, errors, calls, results, summary>>

\* one pass of the row loop: exec_admin(row) and the except clauses
LoopBody(act) ==
    /\ pc = "process"
    /\ idx <= Len(rows)
    /\ action = act
    /\ LET row == RowAt(rows, idx) IN
       \E o \in exec_admin(action, row, idx) :
        LET h == Handler(o.exc) IN
        /\ calls' = calls \o o.calls
        /\ results' = Append(results, [row |-> row, status |-> h, exc |-> o.exc, dn |-> o.dn])
        /\ CASE h = "good" ->
                  /\ idx' = idx + 1
                  /\ UNCHANGED <<errors, pc, fatal, exit>>
             [] h = "count" ->
                  /\ errors' = errors + 1
                  /\ idx' = idx + 1
                  /\ UNCHANGED <<pc, fatal, exit>>
             [] h = "fatal" ->
                  /\ Fatal("UnknownProperty")
                  /\ UNCHANGED <<idx, errors>>
             [] OTHER ->
                  /\ Fatal("uncaught")
                  /\ UNCHANGED <<idx, errors>>
    /\ UNCHANGED <<inputs, rows, found, schema, summary>>

Create == LoopBody("create")

Modify == LoopBody("modify")

Remove == LoopBody("remove")

\* do_import: the tally line and the return value after the loop
Summarize ==
    /\ pc = "process"
    /\ idx > Len(rows)
    /\ summary' = <<SummaryLine(Len(rows), errors)>>
    /\ exit' = ExitCode(errors)
    /\ pc' = "done"
    /\ UNCHANGED <<inputs, rows, found, schema, idx, errors, calls, results, fatal>>

Next ==
    \/ Load
    \/ Validate
    \/ Create
    \/ Modify
    \/ Remove
    \/ Summarize

Spec == Init /\ [][Next]_vars

TypeOK ==
    /\ action \in Actions
    /\ pc \in {"load", "validate", "process", "done", "aborted"}
    /\ errors \in 0..(MaxRows + 1)
    /\ exit \in {-1, 0, 1}
    /\ Len(results) <= Len(keys)

\* ---- properties ----

N == Len(keys)

Done == 1..Len(results)

Recoverable == {"CreateError", "ModifyError", "NoObject"}

Structural == {"dn", "options", "policies", "position", "superordinate"}

CallsOfRow(i) == SelectSeq(calls, LAMBDA c : c.row = i)

OpsOfRow(i) == [j \in 1..Len(CallsOfRow(i)) |-> CallsOfRow(i)[j].op]

LookupsOfRow(i) == SelectSeq(calls, LAMBDA c : c.row = i /\ c.op \in {"get", "get_by_id"})

\* C1: the exit status is 0 exactly when the row loop ran over all rows with no
\* per-row error, and 1 exactly when a per-row error was counted or the run was
\* aborted early; it is set only when the run has ended.
C1_ExitStatus ==
    /\ exit = 0 <=> /\ pc = "done"
                    /\ Len(results) = N
                    /\ \A i \in Done : results[i].exc = "none"
    /\ exit = 1 <=> \/ pc = "aborted"
                    \/ pc = "done" /\ \E i \in Done : results[i].exc \in Recoverable
    /\ pc = "aborted" => fatal \in {"dialect", "no_data", "dn_not_allowed", "id_required",
                                    "unknown_props", "UnknownProperty", "uncaught"}

C1_Witness ==
    /\ pc = "done"
    /\ exit = 1
    /\ Len(results) = 2
    /\ results[1].exc = "none"
    /\ results[2].exc = "NoObject"

\* C2: a step of the row loop in which the row fails with CreateError,
\* ModifyError or NoObject adds exactly one to the error counter, leaves the run
\* running and moves on to the next row; the loop is left for the summary only
\* when every row of the file has been attempted.
C2_RecoverableContinues ==
    [][ /\ (Len(results') = Len(results) + 1 /\ results'[Len(results')].exc \in Recoverable)
            => /\ errors' = errors + 1
               /\ idx' = idx + 1
               /\ pc' = "process"
               /\ exit' = -1
        /\ (pc = "process" /\ pc' = "done") => Len(results) = N
        /\ (pc = "process" /\ pc' = "aborted")
            => results'[Len(results')].exc \notin Recoverable \cup {"none"}
      ]_vars

C2_Witness ==
    /\ Len(results) = 3
    /\ results[1].exc = "NoObject"
    /\ results[2].exc = "ModifyError"
    /\ results[3].exc = "none"
    /\ errors = 2

\* C3: a row that raises UnknownProperty is the last row handed to the row
\* executor: the run is aborted with exit status 1, no summary is produced and no
\* API call is made for a later row.
C3_UnknownPropertyAborts ==
    \A i \in Done :
        results[i].exc = "UnknownProperty"
            => /\ i = Len(results)
               /\ pc = "aborted"
               /\ exit = 1
               /\ summary = <<>>
               /\ \A j \in 1..Len(calls) : calls[j].row <= i

C3_Witness ==
    /\ N = 3
    /\ Len(results) = 2
    /\ results[1].exc = "NoObject"
    /\ results[2].exc = "UnknownProperty"
    /\ errors = 1

\* C4: with action create and a 'dn' column in the header the run never reaches
\* the row loop: no API call is made, no row is executed, the run ends with exit
\* status 1, and once the rows are loaded it ends in the precondition check.
C4_CreateWithDn ==
    (action = "create" /\ "dn" \in header)
        => /\ calls = <<>>
           /\ results = <<>>
           /\ pc \notin {"process", "done"}
           /\ pc = "aborted" => exit = 1
           /\ (pc = "aborted" /\ rows # <<>>) => fatal = "dn_not_allowed"

C4_Witness ==
    /\ action = "create"
    /\ "dn" \in header
    /\ "bogus" \in header
    /\ Len(rows) = 2
    /\ fatal = "dn_not_allowed"

\* C5: with action modify or remove and a header with neither 'dn' nor the
\* identifying property the run never reaches the row loop and ends with exit
\* status 1 in the precondition check; with one of the two columns present the
\* identifier check does not abort the run.
C5_MissingIdentifier ==
    /\ (action \in {"modify", "remove"} /\ "dn" \notin header /\ "username" \notin header)
        => /\ calls = <<>>
           /\ results = <<>>
           /\ pc \notin {"process", "done"}
           /\ pc = "aborted" => exit = 1
           /\ (pc = "aborted" /\ rows # <<>>) => fatal = "id_required"
    /\ ("dn" \in header \/ "username" \in header) => fatal # "id_required"
    /\ action = "create" => fatal # "id_required"

C5_Witness ==
    /\ action = "remove"
    /\ header = {"description", "position"}
    /\ Len(rows) = 2
    /\ fatal = "id_required"

\* C6: once the unknown-column check of a create or modify run has been reached,
\* it aborts the run (before any API call for a row) exactly when introspection
\* succeeded and some header column is neither structural nor a property of the
\* type; when introspection raised NoSuperordinate the run goes on to the row
\* loop.  A remove run never performs the check.
C6_UnknownColumns ==
    /\ schema # "unchecked"
        => /\ action \in {"create", "modify"}
           /\ fatal = "unknown_props"
                <=> (schema = "ok" /\ \E c \in header : c \notin Structural \cup {"username", "description"})
           /\ fatal \notin {"dialect", "no_data", "dn_not_allowed", "id_required"}
    /\ fatal = "unknown_props"
        => schema = "ok" /\ calls = <<>> /\ results = <<>> /\ exit = 1 /\ pc = "aborted"
    /\ (schema = "unchecked" /\ pc \in {"process", "done"}) => action = "remove"

C6_Witness ==
    /\ action = "modify"
    /\ header = {"dn", "position", "bogus"}
    /\ fatal = "unknown_props"

\* C7: when the tally line is logged for a file of N data rows, N rows were
\* found and attempted, the processed count is the number of rows that returned,
\* the error count is the number of rows that failed with a recoverable error,
\* the two add up to N, and a tally without errors goes with exit status 0.
C7_Summary ==
    summary # <<>>
        => /\ Len(summary) = 1
           /\ found = N
           /\ Len(results) = N
           /\ summary[1].ok = Cardinality({i \in Done : results[i].exc = "none"})
           /\ summary[1].errors = Cardinality({i \in Done : results[i].exc \in Recoverable})
           /\ summary[1].ok + summary[1].errors = N
           /\ summary[1].errors = 0 => (exit = 0 /\ summary[1].ok = N)

C7_Witness ==
    /\ summary # <<>>
    /\ summary[1].ok = 2
    /\ summary[1].errors = 1

\* C8: a remove that succeeds returns the dn the object had when delete() was
\* called.
C8_RemoveReturnsPriorDn ==
    action = "remove"
        => \A i \in Done :
            results[i].exc = "none"
                => \E j \in 1..Len(calls) :
                    /\ calls[j].op = "delete"
                    /\ calls[j].row = i
                    /\ results[i].dn = calls[j].arg

\* C9: the rows are handed to the row executor in file order, each at most
\* once and each only after the one before it has returned or failed
\* recoverably; the API calls of a row form one call sequence of the run's
\* action; a run that reaches the summary has executed each row exactly once.
C9_FileOrder ==
    /\ Len(results) <= N
    /\ \A i \in Done :
        /\ results[i].row = [c \in header |-> <<c, keys[i]>>]
        /\ i < Len(results) => results[i].exc \in Recoverable \cup {"none"}
        /\ OpsOfRow(i) \in
             CASE action = "create" -> {<<"new">>, <<"new", "save">>}
               [] action = "modify" -> {<<"get">>, <<"get_by_id">>,
                                        <<"get", "save">>, <<"get_by_id", "save">>}
               [] action = "remove" -> {<<"get">>, <<"get_by_id">>,
                                        <<"get", "delete">>, <<"get_by_id", "delete">>}
        /\ results[i].exc = "none" => Len(OpsOfRow(i)) = 2
    /\ \A j \in 1..Len(calls) :
        /\ calls[j].row \in Done
        /\ j > 1 => calls[j - 1].row <= calls[j].row
    /\ pc \in {"load", "validate", "process"} => idx = Len(results) + 1
    /\ pc = "done" => Len(results) = N

C9_Witness ==
    /\ pc = "done"
    /\ keys = <<2, 1, 1>>
    /\ Len(results) = 3
    /\ action = "create"

\* C10: for modify and remove exactly one lookup call is made per row: get with
\* the row's 'dn' value when the row has a 'dn' column, and get_by_id with the
\* value of the identifying property only when it has none; create makes no
\* lookup call.
C10_Resolution ==
    \A i \in Done :
        IF action \in {"modify", "remove"}
        THEN /\ Len(LookupsOfRow(i)) = 1
             /\ LookupsOfRow(i)[1] =
                  IF "dn" \in header
                  THEN [op |-> "get", row |-> i, arg |-> <<"dn", keys[i]>>]
                  ELSE [op |-> "get_by_id", row |-> i, arg |-> <<"username", keys[i]>>]
             /\ CallsOfRow(i)[1] = LookupsOfRow(i)[1]
        ELSE LookupsOfRow(i) = <<>>

C10_Witness ==
    /\ action = "remove"
    /\ "dn" \in header
    /\ "username" \in header
    /\ Len(results) = 2
    /\ calls[1].op = "get"

====
